---- MODULE Spec2Model ----
(***************************************************************************)
(* Model of streamlit_app.py: the two cached loaders (load_data and         *)
(* load_position_data), the drawdown computation, the key-metrics block    *)
(* and the script run that resolves the three pipelines.                   *)
(*                                                                         *)
(* Column names and labels that are Chinese in the source are written in   *)
(* ASCII here: EQUITY_COL is the account total equity column, "drawdown"   *)
(* and "normalized" are the two derived columns, "Long"/"Short" are the    *)
(* two direction labels of the side map, and "coin", "direction",          *)
(* "position" are the names the three position columns are renamed to.     *)
(***************************************************************************)
EXTENDS Integers, Sequences, FiniteSets, TLC

VARIABLES
    input,      \* SpecLoad: the pipeline under test and the response its fetch gets
    outcome,    \* SpecLoad: what the loader body returned for input
    summary,    \* the key metrics computed by the display block (NoSummary if none)
    lpc,        \* SpecLoad: "start" -> "loaded" -> "shown"
    now,        \* wall clock, in seconds
    ticks,      \* number of clock advances so far
    cache,      \* cache key -> NoEntry or [value, at, src]
    computes,   \* cache key -> number of times the loader body ran
    pc,         \* Spec: position of the script run
    runs,       \* Spec: number of script runs started
    returned,   \* pipeline -> the value its last cached call returned (NoOutcome: none)
    shown,      \* Spec: the sections the display block rendered
    th,         \* SpecConc: session -> state of its cached call
    lock        \* SpecConc: cache key -> holder of the compute lock, or NoHolder

vars == <<input, outcome, summary, lpc, now, ticks, cache, computes, pc, runs,
          returned, shown, th, lock>>

-----------------------------------------------------------------------------
(* Bounds of the model. *)

MaxRows == 3
MaxTicks == 3
MaxRuns == 3
NumSessions == 2
MaxExpiries == 1

(* Program constants. *)

TTL_load_data == 1200
TTL_load_position_data == 1200

DATA_URL == "data.csv"
SPOT_URL == "spot.csv"
SWAP_URL == "swap.csv"

TIME_COL == "time"
EQUITY_COL == "total_equity"

-----------------------------------------------------------------------------
(* Floating point values as exact fractions [n, d] with d >= 0 in lowest    *)
(* terms; d = 0 encodes the IEEE specials: n = 1 is +inf, n = -1 is -inf    *)
(* and n = 0 is NaN.  Rounding is monotone, so signs and orderings of the   *)
(* exact values are those of the floats.                                    *)

Sign(x) == IF x > 0 THEN 1 ELSE IF x < 0 THEN -1 ELSE 0

Abs(x) == IF x < 0 THEN -x ELSE x

RECURSIVE Gcd(_, _)
Gcd(a, b) == IF b = 0 THEN a ELSE Gcd(b, a % b)

Frac(n, d) ==
    IF d = 0 THEN [n |-> Sign(n), d |-> 0]
    ELSE LET g == Gcd(Abs(n), Abs(d))
         IN  [n |-> (Sign(d) * n) \div g, d |-> Abs(d) \div g]

NaN == [n |-> 0, d |-> 0]

IsNaN(f) == f.d = 0 /\ f.n = 0

\* x / y on two integers, as numpy true division
TrueDiv(x, y) == Frac(x, y)

\* f * k for a float f and an integer k
MulInt(f, k) == Frac(f.n * k, f.d)

\* f <= g; every comparison with NaN is false
FLE(f, g) == ~IsNaN(f) /\ ~IsNaN(g) /\ f.n * g.d <= g.n * f.d

FZero == [n |-> 0, d |-> 1]

SetMax(S) == CHOOSE m \in S : \A x \in S : x <= m
SetMin(S) == CHOOSE m \in S : \A x \in S : m <= x

\* Series.min() of a float column: NaN entries are skipped, NaN if none is left
FMin(S) ==
    LET num == {f \in S : ~IsNaN(f)}
    IN  IF num = {} THEN NaN ELSE CHOOSE m \in num : \A f \in num : FLE(m, f)

-----------------------------------------------------------------------------
(* calculate_drawdown *)

\* equity_series.cummax()
cummax(s) == [i \in 1..Len(s) |-> SetMax({s[j] : j \in 1..i})]

DrawdownFlipped(equity_series) ==
    LET running_max == cummax(equity_series)
    IN  [i \in 1..Len(equity_series) |->
            MulInt(TrueDiv(running_max[i] - equity_series[i], running_max[i]), 100)]

calculate_drawdown(equity_series) ==
    LET running_max == cummax(equity_series)
    IN  [i \in 1..Len(equity_series) |->
            MulInt(TrueDiv(equity_series[i] - running_max[i], running_max[i]), 100)]

-----------------------------------------------------------------------------
(* Outcomes of a loader: a returned table, or None together with the       *)
(* message given to st.error.  col is the column the message names.        *)

NoErr == [kind |-> "none", col |-> ""]

Success(rows) == [ok |-> TRUE, err |-> NoErr, rows |-> rows]

\* st.error("... missing '{col}' column"); return None
MissingColumn(col) ==
    [ok |-> FALSE, err |-> [kind |-> "missing_column", col |-> col], rows |-> <<>>]

\* except Exception as e: st.error("... {str(e)}"); return None
Caught(what, col) ==
    [ok |-> FALSE, err |-> [kind |-> what, col |-> col], rows |-> <<>>]

IsNone(o) == ~o.ok

-----------------------------------------------------------------------------
(* load_position_data *)

required_columns == <<"symbol", "side", "pos_u">>

LastMissing(required, columns) ==
    LET miss == {i \in 1..Len(required) : required[i] \notin columns}
    IN  IF miss = {} THEN "" ELSE required[SetMax(miss)]

\* the column the loop over required_columns reports, "" if none is missing
FirstMissing(required, columns) ==
    LET miss == {i \in 1..Len(required) : required[i] \notin columns}
    IN  IF miss = {} THEN "" ELSE required[SetMin(miss)]

\* Series.map({-1: Short, 1: Long}): a value outside the dict maps to NaN
SideMap(side) ==
    IF side = -1 THEN "Short" ELSE IF side = 1 THEN "Long" ELSE "NaN"

load_position_data(response) ==
    IF response.status # "ok" THEN Caught("http_error", "")
    ELSE IF FirstMissing(required_columns, response.columns) # ""
    THEN MissingColumn(FirstMissing(required_columns, response.columns))
    ELSE Success([i \in 1..Len(response.rows) |->
                    [coin      |-> response.rows[i].symbol,
                     direction |-> SideMap(response.rows[i].side),
                     position  |-> response.rows[i].pos_u]])

-----------------------------------------------------------------------------
(* load_data *)

\* data[EQUITY_COL] / data[EQUITY_COL].iloc[0]: the positional read of the
\* first value raises IndexError on an empty column
NormalizedGuarded(values) ==
    [raised |-> FALSE,
     column |-> [i \in 1..Len(values) |-> TrueDiv(values[i], values[1])]]

Normalized(values) ==
    IF Len(values) = 0 THEN [raised |-> TRUE, column |-> <<>>]
    ELSE [raised |-> FALSE,
          column |-> [i \in 1..Len(values) |-> TrueDiv(values[i], values[1])]]

\* read_csv(parse_dates=['time']) raises when the time column is absent, and its
\* message names the column; the two explicit checks follow
EquityColumnError(columns) ==
    IF TIME_COL \notin columns THEN [kind |-> "parse_dates_missing", col |-> TIME_COL]
    ELSE IF TIME_COL \notin columns THEN [kind |-> "missing_column", col |-> TIME_COL]
    ELSE IF EQUITY_COL \notin columns THEN [kind |-> "missing_column", col |-> EQUITY_COL]
    ELSE NoErr

load_data(response) ==
    IF response.status # "ok" THEN Caught("http_error", "")
    ELSE IF EquityColumnError(response.columns) # NoErr
    THEN [ok |-> FALSE, err |-> EquityColumnError(response.columns), rows |-> <<>>]
    ELSE LET values     == response.rows
             drawdown   == calculate_drawdown(values)
             normalized == Normalized(values)
         IN  IF normalized.raised THEN Caught("index_error", "")
             ELSE Success([i \in 1..Len(values) |->
                            [total_equity |-> values[i],
                             drawdown     |-> drawdown[i],
                             normalized   |-> normalized.column[i]]])

-----------------------------------------------------------------------------
(* The key metrics of the display block, computed when df is not None. *)

NoSummary == [present |-> FALSE]

\* Series.max() of a float column, NaN entries skipped
FMax(S) ==
    LET num == {f \in S : ~IsNaN(f)}
    IN  IF num = {} THEN NaN ELSE CHOOSE m \in num : \A f \in num : FLE(f, m)

KeyMetricsMaxDrawdownByMax(df) ==
    [present         |-> TRUE,
     current_capital |-> df[Len(df)].total_equity,
     max_capital     |-> SetMax({df[i].total_equity : i \in 1..Len(df)}),
     min_capital     |-> SetMin({df[i].total_equity : i \in 1..Len(df)}),
     current_dd      |-> df[Len(df)].drawdown,
     max_dd          |-> FMax({df[i].drawdown : i \in 1..Len(df)})]

\* iloc[-1], max(), min() of the equity column; iloc[-1], min() of drawdown
KeyMetrics(df) ==
    [present         |-> TRUE,
     current_capital |-> df[Len(df)].total_equity,
     max_capital     |-> SetMax({df[i].total_equity : i \in 1..Len(df)}),
     min_capital     |-> SetMin({df[i].total_equity : i \in 1..Len(df)}),
     current_dd      |-> df[Len(df)].drawdown,
     max_dd          |-> FMin({df[i].drawdown : i \in 1..Len(df)})]

\* the block under "if df is not None": None shows no metrics, and iloc[-1]
\* raises on a table without rows
DisplayMetrics(df) ==
    IF IsNone(df) THEN NoSummary
    ELSE IF Len(df.rows) = 0 THEN [present |-> FALSE, raised |-> "IndexError"]
    ELSE KeyMetrics(df.rows)

-----------------------------------------------------------------------------
(* Pipelines and the responses a fetch can get. *)

Pipelines == {"data", "swap", "spot"}

UrlOf(p) == IF p = "data" THEN DATA_URL ELSE IF p = "swap" THEN SWAP_URL ELSE SPOT_URL

LoaderBody(p, response) ==
    IF p = "data" THEN load_data(response) ELSE load_position_data(response)

SeqsUpTo(S, n) == UNION {[1..k -> S] : k \in 0..n}

EquityValues == {-100, -50, 0, 90, 100, 110}
SideValues == {-1, 0, 1, 2}

HttpError == [status |-> "http_error", columns |-> {}, rows |-> <<>>]

EquityResponses ==
    {HttpError} \cup
    {[status |-> "ok", columns |-> c, rows |-> r] :
        c \in SUBSET {TIME_COL, EQUITY_COL}, r \in SeqsUpTo(EquityValues, MaxRows)}

PositionRows == [symbol : {"BTC"}, side : SideValues, pos_u : {10}]

PositionResponses ==
    {HttpError} \cup
    {[status |-> "ok", columns |-> c, rows |-> r] :
        c \in SUBSET {"symbol", "side", "pos_u"}, r \in SeqsUpTo(PositionRows, MaxRows)}

Responses(p) == IF p = "data" THEN EquityResponses ELSE PositionResponses

-----------------------------------------------------------------------------
(* st.cache_data(ttl=...): one entry per (function, arguments).            *)

FuncOf(p) == IF p = "data" THEN "load_data" ELSE "load_position_data"

KeyIgnoringUrl(p) == <<FuncOf(p), "">>

\* load_data takes no argument, load_position_data is keyed by its url
KeyOf(p) == <<FuncOf(p), IF p = "data" THEN "" ELSE UrlOf(p)>>

Keys == {KeyOf(p) : p \in Pipelines}

TtlOf(p) == IF p = "data" THEN TTL_load_data ELSE TTL_load_position_data

NoOutcome == [ok |-> FALSE, err |-> [kind |-> "unset", col |-> ""], rows |-> <<>>]

NoEntry == [present |-> FALSE, value |-> NoOutcome, at |-> 0, src |-> ""]

Sessions == 1..NumSessions

NoHolder == 0

IdleThread == [pc |-> "call", p |-> "data", value |-> NoOutcome]

-----------------------------------------------------------------------------
(* SpecLoad: one loader body applied to every response, then the metrics. *)

NoInput == [pipeline |-> "data", response |-> HttpError]

InitLoad ==
    /\ \E p \in Pipelines : \E r \in Responses(p) :
            input = [pipeline |-> p, response |-> r]
    /\ outcome = NoOutcome
    /\ summary = NoSummary
    /\ lpc = "start"
    /\ now = 0
    /\ ticks = 0
    /\ cache = [k \in Keys |-> NoEntry]
    /\ computes = [k \in Keys |-> 0]
    /\ pc = "idle"
    /\ runs = 0
    /\ returned = [p \in Pipelines |-> NoOutcome]
    /\ shown = {}
    /\ th = [t \in Sessions |-> IdleThread]
    /\ lock = [k \in Keys |-> NoHolder]

RunLoadData ==
    /\ lpc = "start"
    /\ input.pipeline = "data"
    /\ outcome' = load_data(input.response)
    /\ lpc' = "loaded"
    /\ UNCHANGED <<input, summary, now, ticks, cache, computes, pc, runs, returned,
                   shown, th, lock>>

RunLoadPositionData ==
    /\ lpc = "start"
    /\ input.pipeline # "data"
    /\ outcome' = load_position_data(input.response)
    /\ lpc' = "loaded"
    /\ UNCHANGED <<input, summary, now, ticks, cache, computes, pc, runs, returned,
                   shown, th, lock>>

RunDisplayMetrics ==
    /\ lpc = "loaded"
    /\ input.pipeline = "data"
    /\ summary' = DisplayMetrics(outcome)
    /\ lpc' = "shown"
    /\ UNCHANGED <<input, outcome, now, ticks, cache, computes, pc, runs, returned,
                   shown, th, lock>>

NextLoad == RunLoadData \/ RunLoadPositionData \/ RunDisplayMetrics

SpecLoad == InitLoad /\ [][NextLoad]_vars

-----------------------------------------------------------------------------
(* Spec: script runs of one session.  Each run calls the three cached      *)
(* loaders in order and then renders; the clock advances between steps.    *)

Deltas == {1, TTL_load_data - 1}

SymbolOf(p) == IF p = "swap" THEN "BTC-USDT-SWAP" ELSE "BTC-USDT"

\* what the three sources can serve during a refresh cycle
CycleResponses(p) ==
    IF p = "data"
    THEN {HttpError,
          [status |-> "ok", columns |-> {TIME_COL}, rows |-> <<100>>],
          [status |-> "ok", columns |-> {TIME_COL, EQUITY_COL}, rows |-> <<100, 110, 90>>]}
    ELSE {HttpError,
          [status |-> "ok", columns |-> {"symbol", "pos_u"},
           rows |-> <<[symbol |-> SymbolOf(p), side |-> 1, pos_u |-> 10]>>],
          [status |-> "ok", columns |-> {"symbol", "side", "pos_u"},
           rows |-> <<[symbol |-> SymbolOf(p), side |-> -1, pos_u |-> 10]>>]}

FreshInclusive(entry, ttl, t) == entry.present /\ t - entry.at <= ttl

\* an entry is served while its age is below the ttl
Fresh(entry, ttl, t) == entry.present /\ t - entry.at < ttl

StoredOnSuccessOnly(value, t, p) ==
    IF value.ok THEN [present |-> TRUE, value |-> value, at |-> t, src |-> p]
    ELSE NoEntry

\* the entry written after the body returned: any return value, None included
Stored(value, t, p) == [present |-> TRUE, value |-> value, at |-> t, src |-> p]

CachedCall(p) ==
    LET k == KeyOf(p)
    IN  IF Fresh(cache[k], TtlOf(p), now)
        THEN /\ returned' = [returned EXCEPT ![p] = cache[k].value]
             /\ UNCHANGED <<cache, computes>>
        ELSE \E r \in CycleResponses(p) :
                /\ returned' = [returned EXCEPT ![p] = LoaderBody(p, r)]
                /\ cache' = [cache EXCEPT ![k] = Stored(LoaderBody(p, r), now, p)]
                /\ computes' = [computes EXCEPT ![k] = @ + 1]

Init ==
    /\ input = NoInput
    /\ outcome = NoOutcome
    /\ summary = NoSummary
    /\ lpc = "start"
    /\ now = 0
    /\ ticks = 0
    /\ cache = [k \in Keys |-> NoEntry]
    /\ computes = [k \in Keys |-> 0]
    /\ pc = "idle"
    /\ runs = 0
    /\ returned = [p \in Pipelines |-> NoOutcome]
    /\ shown = {}
    /\ th = [t \in Sessions |-> IdleThread]
    /\ lock = [k \in Keys |-> NoHolder]

Tick ==
    /\ ticks < MaxTicks
    /\ \E d \in Deltas : now' = now + d
    /\ ticks' = ticks + 1
    /\ UNCHANGED <<input, outcome, summary, lpc, cache, computes, pc, runs, returned,
                   shown, th, lock>>

\* a rerun executes the script from the top with fresh locals
Rerun ==
    /\ pc = "idle"
    /\ runs < MaxRuns
    /\ runs' = runs + 1
    /\ pc' = "data"
    /\ returned' = [p \in Pipelines |-> NoOutcome]
    /\ summary' = NoSummary
    /\ shown' = {}
    /\ UNCHANGED <<input, outcome, lpc, now, ticks, cache, computes, th, lock>>

\* df = load_data()
CallLoadData ==
    /\ pc = "data"
    /\ CachedCall("data")
    /\ pc' = "swap"
    /\ UNCHANGED <<input, outcome, summary, lpc, now, ticks, runs, shown, th, lock>>

\* swap_df = load_position_data(SWAP_URL)
CallLoadSwap ==
    /\ pc = "swap"
    /\ CachedCall("swap")
    /\ pc' = "spot"
    /\ UNCHANGED <<input, outcome, summary, lpc, now, ticks, runs, shown, th, lock>>

\* spot_df = load_position_data(SPOT_URL)
CallLoadSpot ==
    /\ pc = "spot"
    /\ CachedCall("spot")
    /\ pc' = "display"
    /\ UNCHANGED <<input, outcome, summary, lpc, now, ticks, runs, shown, th, lock>>

\* the rest of the script: the chart and key metrics when df is not None, and
\* each position table when it is not None
Display ==
    /\ pc = "display"
    /\ summary' = DisplayMetrics(returned["data"])
    /\ shown' = {p \in Pipelines : ~IsNone(returned[p])}
    /\ pc' = "idle"
    /\ UNCHANGED <<input, outcome, lpc, now, ticks, cache, computes, runs, returned,
                   th, lock>>

Next == Tick \/ Rerun \/ CallLoadData \/ CallLoadSwap \/ CallLoadSpot \/ Display

Spec == Init /\ [][Next]_vars

-----------------------------------------------------------------------------
(* SpecConc: several sessions run the script at once, each in its own      *)
(* thread.  A cached call reads the cache; on a miss it takes the compute  *)
(* lock of the key, reads again, and only then runs the body and writes    *)
(* the entry before it releases the lock.                                  *)

NextPipeline(p) == IF p = "data" THEN "swap" ELSE IF p = "swap" THEN "spot" ELSE "done"

\* the call of session t returns v: the script goes on to its next cached call
Return(t, v) ==
    /\ th' = [th EXCEPT ![t] = [pc    |-> IF @.p = "spot" THEN "done" ELSE "call",
                                p     |-> IF @.p = "spot" THEN "spot" ELSE NextPipeline(@.p),
                                value |-> NoOutcome]]
    /\ returned' = [returned EXCEPT ![th[t].p] = v]

LockAlwaysFree(k) == TRUE

LockFree(k) == lock[k] = NoHolder

\* first read of the cache
Lookup(t) ==
    /\ th[t].pc = "call"
    /\ IF Fresh(cache[KeyOf(th[t].p)], TtlOf(th[t].p), now)
       THEN Return(t, cache[KeyOf(th[t].p)].value)
       ELSE th' = [th EXCEPT ![t].pc = "wait"] /\ UNCHANGED returned
    /\ UNCHANGED <<input, outcome, summary, lpc, now, ticks, cache, computes, pc, runs,
                   shown, lock>>

AcquireLock(t) ==
    /\ th[t].pc = "wait"
    /\ LockFree(KeyOf(th[t].p))
    /\ lock' = [lock EXCEPT ![KeyOf(th[t].p)] = t]
    /\ th' = [th EXCEPT ![t].pc = "locked"]
    /\ UNCHANGED <<input, outcome, summary, lpc, now, ticks, cache, computes, pc, runs,
                   returned, shown>>

\* second read, under the lock: a hit releases the lock, a miss starts the body
Recheck(t) ==
    /\ th[t].pc = "locked"
    /\ IF Fresh(cache[KeyOf(th[t].p)], TtlOf(th[t].p), now)
       THEN /\ Return(t, cache[KeyOf(th[t].p)].value)
            /\ lock' = [lock EXCEPT ![KeyOf(th[t].p)] = NoHolder]
       ELSE /\ th' = [th EXCEPT ![t].pc = "computing"]
            /\ UNCHANGED <<lock, returned>>
    /\ UNCHANGED <<input, outcome, summary, lpc, now, ticks, cache, computes, pc, runs,
                   shown>>

\* what a source serves to a session: an HTTP error or a complete table
SessionResponses(p) == {r \in CycleResponses(p) : IsNone(LoaderBody(p, r)) <=> r = HttpError}

\* the loader body fetches, parses and returns
BodyReturns(t) ==
    /\ th[t].pc = "computing"
    /\ \E r \in SessionResponses(th[t].p) :
            th' = [th EXCEPT ![t].pc = "write", ![t].value = LoaderBody(th[t].p, r)]
    /\ UNCHANGED <<input, outcome, summary, lpc, now, ticks, cache, computes, pc, runs,
                   returned, shown, lock>>

WriteResult(t) ==
    /\ th[t].pc = "write"
    /\ cache' = [cache EXCEPT ![KeyOf(th[t].p)] = Stored(th[t].value, now, th[t].p)]
    /\ lock' = [lock EXCEPT ![KeyOf(th[t].p)] = NoHolder]
    /\ Return(t, th[t].value)
    /\ UNCHANGED <<input, outcome, summary, lpc, now, ticks, computes, pc, runs, shown>>

\* the session's script is rerun from the top
SessionRerun(t) ==
    /\ th[t].pc = "done"
    /\ th' = [th EXCEPT ![t] = IdleThread]
    /\ UNCHANGED <<input, outcome, summary, lpc, now, ticks, cache, computes, pc, runs,
                   returned, shown, lock>>

\* the clock passes the ttl of every entry
Expire ==
    /\ ticks < MaxExpiries
    /\ now' = now + TTL_load_data
    /\ ticks' = ticks + 1
    /\ UNCHANGED <<input, outcome, summary, lpc, cache, computes, pc, runs, returned,
                   shown, th, lock>>

NextConc ==
    \/ Expire
    \/ \E t \in Sessions : Lookup(t)
    \/ \E t \in Sessions : AcquireLock(t)
    \/ \E t \in Sessions : Recheck(t)
    \/ \E t \in Sessions : BodyReturns(t)
    \/ \E t \in Sessions : WriteResult(t)
    \/ \E t \in Sessions : SessionRerun(t)

SpecConc == Init /\ [][NextConc]_vars

-----------------------------------------------------------------------------
(* Properties of the loader bodies and the key metrics, under SpecLoad.    *)

Loaded == lpc # "start"

FetchedTable(p) == input.pipeline = p /\ input.response.status = "ok"

DeclaredSchema(p) ==
    IF p = "data" THEN <<TIME_COL, EQUITY_COL>> ELSE <<"symbol", "side", "pos_u">>

HasSchema == \A i \in 1..Len(DeclaredSchema(input.pipeline)) :
                DeclaredSchema(input.pipeline)[i] \in input.response.columns

\* C3: a position table maps side +1 to Long and -1 to Short, a table with any
\* other side value fails as a whole with an invalid_side error, and no
\* successful snapshot carries a row whose direction label is missing.
C3_InvalidSideIsRejected ==
    (Loaded /\ input.pipeline # "data" /\ input.response.status = "ok" /\ HasSchema) =>
        LET rows == input.response.rows
            bad  == {i \in 1..Len(rows) : rows[i].side \notin {-1, 1}}
        IN  /\ bad # {} => ~outcome.ok /\ outcome.err.kind = "invalid_side"
            /\ bad = {} =>
                  /\ outcome.ok
                  /\ \A i \in 1..Len(rows) :
                        outcome.rows[i].direction =
                            IF rows[i].side = 1 THEN "Long" ELSE "Short"
            /\ outcome.ok =>
                  \A i \in 1..Len(outcome.rows) :
                        outcome.rows[i].direction \in {"Long", "Short"}

\* C4: a fetched table that lacks a required column makes the loader fail with
\* an error naming the first missing column in the declared order (symbol, side,
\* pos_u for positions; time, then total equity for the equity series).
C4_FirstMissingColumnNamed ==
    (Loaded /\ input.response.status = "ok") =>
        LET req == DeclaredSchema(input.pipeline)
        IN  \A i \in 1..Len(req) :
                (/\ req[i] \notin input.response.columns
                 /\ \A j \in 1..(i - 1) : req[j] \in input.response.columns)
                => (~outcome.ok /\ outcome.err.col = req[i])

C4_Witness ==
    /\ Loaded
    /\ FetchedTable("data")
    /\ input.response.columns = {EQUITY_COL}
    /\ ~outcome.ok
    /\ outcome.err.col = TIME_COL

PrefixMax(v, i) == SetMax({v[j] : j \in 1..i})

ExpectedDrawdown(v, i) == Frac((v[i] - PrefixMax(v, i)) * 100, PrefixMax(v, i))

\* C5 as stated: for every equity series, whatever its values, every record of
\* a loaded series has drawdown <= 0.
C5_DrawdownNeverPositive ==
    (Loaded /\ input.pipeline = "data" /\ outcome.ok) =>
        \A i \in 1..Len(outcome.rows) : FLE(outcome.rows[i].drawdown, FZero)

\* C5 as amended: for every equity series whose first total equity is positive,
\* every record has drawdown = (value - running max) / running max * 100 <= 0,
\* the running max being the non-decreasing maximum of the values so far.
C5_DrawdownNonPositiveFromPositiveStart ==
    (Loaded /\ input.pipeline = "data" /\ outcome.ok /\ input.response.rows[1] > 0) =>
        LET v == input.response.rows
        IN  \A i \in 1..Len(v) :
                /\ outcome.rows[i].drawdown = ExpectedDrawdown(v, i)
                /\ FLE(outcome.rows[i].drawdown, FZero)
                /\ PrefixMax(v, i) >= v[i]
                /\ i > 1 => PrefixMax(v, i - 1) <= PrefixMax(v, i)

C5_Witness ==
    /\ Loaded
    /\ FetchedTable("data")
    /\ input.response.rows = <<100, 110, 90>>
    /\ outcome.ok
    /\ outcome.rows[3].drawdown = Frac(-2000, 110)
    /\ outcome.rows[2].drawdown = FZero

C7_ZeroReferenceIsRejected ==
    (Loaded /\ input.pipeline = "data") =>
        /\ (/\ input.response.status = "ok"
             /\ HasSchema
             /\ Len(input.response.rows) >= 1
             /\ input.response.rows[1] = 0)
              => (~outcome.ok /\ outcome.err.kind = "zero_reference")
        /\ outcome.ok =>
              \A i \in 1..Len(outcome.rows) : outcome.rows[i].normalized.d # 0

\* C10: for every loaded (hence non-empty) series the key metrics are the last
\* total equity, the maximum and minimum total equity, the last drawdown and
\* the minimum drawdown (over the records whose drawdown is a number; NaN if
\* there is none); equity 100, 110, 90 has running max 100, 110, 110, current
\* equity 90 and maximum = current drawdown (90 - 110) / 110 * 100.
C10_KeyMetrics ==
    (lpc = "shown" /\ outcome.ok) =>
        LET v   == input.response.rows
            n   == Len(v)
            num == {i \in 1..n : ~IsNaN(ExpectedDrawdown(v, i))}
        IN  /\ summary.present
            /\ summary.current_capital = v[n]
            /\ \E i \in 1..n : summary.max_capital = v[i]
            /\ \A i \in 1..n : v[i] <= summary.max_capital
            /\ \E i \in 1..n : summary.min_capital = v[i]
            /\ \A i \in 1..n : summary.min_capital <= v[i]
            /\ summary.current_dd = ExpectedDrawdown(v, n)
            /\ IF num = {} THEN IsNaN(summary.max_dd)
               ELSE /\ \E i \in num : summary.max_dd = ExpectedDrawdown(v, i)
                    /\ \A i \in num : FLE(summary.max_dd, ExpectedDrawdown(v, i))
            /\ v = <<100, 110, 90>> =>
                  /\ [i \in 1..3 |-> PrefixMax(v, i)] = <<100, 110, 110>>
                  /\ summary.current_capital = 90
                  /\ summary.max_dd = Frac((90 - 110) * 100, 110)
                  /\ summary.current_dd = summary.max_dd

C10_Witness ==
    /\ lpc = "shown"
    /\ input.response.rows = <<100, 110, 90>>
    /\ summary.present
    /\ summary.current_capital = 90
    /\ summary.max_capital = 110
    /\ summary.max_dd = Frac(-2000, 110)

-----------------------------------------------------------------------------
(* Properties of the cached calls of a script run, under Spec.             *)

\* the step is the cached call of pipeline p
CallOf(p) == pc = p /\ pc' # p

\* C1: a call that finds no entry within its ttl runs the loader body once and
\* stores what it returned, a table or a failure alike; a call that finds an
\* entry within its ttl returns that stored outcome without running the body,
\* also when the stored outcome is a failure.
C1_OutcomeCachedAndReused ==
    [][\A p \in Pipelines :
          CallOf(p) =>
            LET k == KeyOf(p)
                e == cache[k]
            IN  IF e.present /\ now - e.at < TtlOf(p)
                THEN /\ returned'[p] = e.value
                     /\ computes'[k] = computes[k]
                     /\ cache'[k] = e
                ELSE /\ computes'[k] = computes[k] + 1
                     /\ \E r \in CycleResponses(p) : returned'[p] = LoaderBody(p, r)
                     /\ cache'[k].present
                     /\ cache'[k].value = returned'[p]]_vars

C1_Witness ==
    /\ runs = 2
    /\ pc = "swap"
    /\ computes[KeyOf("data")] = 1
    /\ IsNone(returned["data"])
    /\ returned["data"].err.kind = "http_error"
    /\ cache[KeyOf("data")].value = returned["data"]

\* C2: the first call for a key creates its entry; a later call at time now
\* reuses the entry exactly when now - computed_at < ttl, with ttl = 1200 for
\* all three pipelines; the first call with now - computed_at >= ttl recomputes
\* and replaces the entry, stamped now; an expired entry is never returned.
C2_TtlLifecycle ==
    [][\A p \in Pipelines :
          CallOf(p) =>
            LET k   == KeyOf(p)
                e   == cache[k]
                age == now - e.at
            IN  /\ TtlOf(p) = 1200
                /\ cache'[k].present
                /\ (e.present /\ age < 1200) => cache'[k] = e
                /\ (~e.present \/ age >= 1200) =>
                      /\ cache'[k].at = now
                      /\ cache'[k] # e
                      /\ computes'[k] = computes[k] + 1
                /\ returned'[p] = cache'[k].value
                /\ now - cache'[k].at < 1200]_vars

C2_Witness ==
    /\ pc = "swap"
    /\ now = 1200
    /\ cache[KeyOf("data")].at = 1200
    /\ computes[KeyOf("data")] = 2
    /\ runs = 3

\* C8: the three pipelines fail independently: a cached call touches only the
\* entry and the result of its own pipeline, the script goes on to the next
\* call and to the display whatever a call returned, every result delivered to
\* the display is the outcome stored under the pipeline's own key and computed
\* from its own source, and the two position snapshots have distinct keys.
C8_IndependentPipelines ==
    [][/\ \A p, q \in Pipelines : p # q => KeyOf(p) # KeyOf(q)
       /\ \A p \in Pipelines :
            CallOf(p) =>
              /\ pc' = IF p = "spot" THEN "display" ELSE NextPipeline(p)
              /\ cache'[KeyOf(p)].src = p
              /\ \A q \in Pipelines \ {p} :
                    /\ cache'[KeyOf(q)] = cache[KeyOf(q)]
                    /\ computes'[KeyOf(q)] = computes[KeyOf(q)]
                    /\ returned'[q] = returned[q]
       /\ pc' = "display" =>
            \A p \in Pipelines :
              /\ returned'[p] = cache'[KeyOf(p)].value
              /\ \E r \in CycleResponses(p) : returned'[p] = LoaderBody(p, r)
              /\ \A i \in 1..Len(returned'[p].rows) :
                    p # "data" => returned'[p].rows[i].coin = SymbolOf(p)
       /\ (pc = "display" /\ pc' # "display") =>
            shown' = {p \in Pipelines : returned[p].ok}]_vars

C8_Witness ==
    /\ pc = "idle"
    /\ runs >= 1
    /\ IsNone(returned["data"])
    /\ returned["swap"].ok
    /\ IsNone(returned["spot"])
    /\ shown = {"swap"}
    /\ summary = NoSummary

-----------------------------------------------------------------------------
(* Properties of concurrent cached calls, under SpecConc.                  *)

\* the sessions whose loader body for key k has started and whose result is
\* not yet written
InFlight(k) == {t \in Sessions : th[t].pc \in {"computing", "write"} /\ KeyOf(th[t].p) = k}

\* C9: at most one run of the loader body per key is in flight; a session
\* starts the body only while it holds the key's lock and no fresh entry
\* exists, a session that finds a fresh entry returns it, and an entry appears
\* in the cache only once the body that produced it has returned.
C9_AtMostOneComputeInFlight ==
    [][/\ \A k \in Keys : Cardinality(InFlight(k))' <= 1
       /\ \A t \in Sessions :
            LET k == KeyOf(th[t].p)
            IN  /\ (th[t].pc # "computing" /\ th'[t].pc = "computing") =>
                      /\ lock[k] = t
                      /\ ~(cache[k].present /\ now - cache[k].at < TtlOf(th[t].p))
                /\ (/\ th[t].pc \in {"call", "locked"}
                    /\ th'[t].pc \in {"call", "done"}
                    /\ th'[t] # th[t]) =>
                      /\ cache[k].present
                      /\ now - cache[k].at < TtlOf(th[t].p)
                      /\ returned'[th[t].p] = cache[k].value
                /\ cache'[k] # cache[k] =>
                      \E w \in Sessions :
                        /\ th[w].pc = "write"
                        /\ KeyOf(th[w].p) = k
                        /\ cache'[k].value = th[w].value
                        /\ returned'[th[w].p] = th[w].value]_vars

C9_Witness ==
    /\ th[1].pc = "computing"
    /\ th[2].pc = "wait"
    /\ th[1].p = "data"
    /\ th[2].p = "data"
    /\ lock[KeyOf("data")] = 1
    /\ cache[KeyOf("data")].present
    /\ now - cache[KeyOf("data")].at >= TTL_load_data

====
